---- MODULE Spec2Model ----
(***************************************************************************)
(* Search indexing subsystem of mdump: searchService.ts (buildIndex,       *)
(* indexDirectory, indexFile, removeFromIndex, saveIndex, search,          *)
(* getSuggestions), the watcher's handleFileEvent, the /reindex route and  *)
(* the startup sequence, over a small notes directory.                     *)
(*                                                                         *)
(* Strings are tuples of one-character strings, so that startsWith,        *)
(* extname, basename, split and the tokenizer are computed, not assumed.   *)
(***************************************************************************)
EXTENDS Integers, Sequences, FiniteSets, TLC

(***************************************************************************)
(* Bounds of the model                                                     *)
(***************************************************************************)
MaxOps == 2     \* stimuli from outside: file changes, requests, kills
MaxSeqOps == 3  \* the same, when the calls run one at a time
MaxLoadOps == 1 \* the same, after a start that finds a snapshot file
MaxRankOps == 5 \* notes indexed and searches made on an index built by hand

(***************************************************************************)
(* String helpers                                                          *)
(***************************************************************************)
Range(s) == {s[i] : i \in DOMAIN s}

StartsWith(s, p) == Len(p) <= Len(s) /\ SubSeq(s, 1, Len(p)) = p

EndsWith(s, p) == Len(p) <= Len(s) /\ SubSeq(s, Len(s) - Len(p) + 1, Len(s)) = p

LastIndexOf(s, c) ==
  LET I == {i \in DOMAIN s : s[i] = c}
  IN IF I = {} THEN 0 ELSE CHOOSE i \in I : \A j \in I : j <= i

Lower(c) ==
  CASE c = "M" -> "m"
    [] c = "D" -> "d"
    [] OTHER -> c

toLowerCase(s) == [i \in DOMAIN s |-> Lower(s[i])]

\* split(sep): the pieces between occurrences of the separator character
RECURSIVE SplitFrom(_, _, _, _)
SplitFrom(s, seps, i, cur) ==
  IF i > Len(s) THEN <<cur>>
  ELSE IF s[i] \in seps THEN <<cur>> \o SplitFrom(s, seps, i + 1, <<>>)
  ELSE SplitFrom(s, seps, i + 1, Append(cur, s[i]))

Split(s, seps) == SplitFrom(s, seps, 1, <<>>)

\* path.basename(p)
basename(p) ==
  LET i == LastIndexOf(p, "/") IN SubSeq(p, i + 1, Len(p))

\* path.extname(p): from the last '.' of the basename, '' when there is none
\* or when it is the first character of the basename
extname(p) ==
  LET b == basename(p)
      i == LastIndexOf(b, ".")
  IN IF i <= 1 THEN <<>> ELSE SubSeq(b, i, Len(b))

\* path.basename(p, ext)
basenameExt(p, ext) ==
  LET b == basename(p)
  IN IF ext # <<>> /\ b # ext /\ EndsWith(b, ext)
     THEN SubSeq(b, 1, Len(b) - Len(ext))
     ELSE b

\* path.join(relativePath, name) as indexDirectory uses it
joinPath(rel, name) == IF rel = <<>> THEN name ELSE rel \o <<"/">> \o name

(***************************************************************************)
(* config/constants.ts and utils/paths.ts                                  *)
(***************************************************************************)
HIDDEN_FOLDER_PREFIX == <<".">>
MARKDOWN_EXTENSION == <<".", "m", "d">>
SEARCH_FIELDS == <<"title", "content", "path">>
Fields == Range(SEARCH_FIELDS)

isMarkdownFile(filePath) == toLowerCase(extname(filePath)) = MARKDOWN_EXTENSION

isHiddenPath(filePath) ==
  \E part \in Range(Split(filePath, {"/", "\\"})) :
    StartsWith(part, HIDDEN_FOLDER_PREFIX) /\ Len(part) > 1

(***************************************************************************)
(* The notes directory                                                     *)
(***************************************************************************)
P_a == <<"a", ".", "m", "d">>
P_bc == <<"b", "/", "c", ".", "m", "d">>
P_hx == <<".", "h", "/", "x", ".", "m", "d">>
P_n == <<"n", ".", "t", "x", "t">>
D_root == <<>>
D_b == <<"b">>
D_h == <<".", "h">>

MutableFiles == {P_a, P_bc}
StaticFiles == {P_hx, P_n}
AllFiles == MutableFiles \cup StaticFiles
Dirs == {D_root, D_b, D_h}

T_road == <<"r", "o", "a", "d">>
T_map == <<"m", "a", "p">>
Text1 == T_road
Text2 == T_road \o <<" ">> \o T_map
Contents == {Text1, Text2}
Absent == <<"ENOENT">>

\* readdir order of the entries the model knows, per directory
EntryOrder(dir) ==
  IF dir = D_root
  THEN << <<".", "h">>, <<"a", ".", "m", "d">>, <<"b">>, <<"n", ".", "t", "x", "t">> >>
  ELSE IF dir = D_b THEN << <<"c", ".", "m", "d">> >>
  ELSE << <<"x", ".", "m", "d">> >>

IsDirEntry(dir, name) == joinPath(dir, name) \in Dirs

RECURSIVE SelectSeq2(_, _)
SelectSeq2(s, keep) ==
  IF s = <<>> THEN <<>>
  ELSE IF Head(s) \in keep THEN <<Head(s)>> \o SelectSeq2(Tail(s), keep)
  ELSE SelectSeq2(Tail(s), keep)

\* readdir(dir, {withFileTypes: true}) on a given disk
Readdir(d, dir) ==
  LET names == {n \in Range(EntryOrder(dir)) :
                  \/ IsDirEntry(dir, n)
                  \/ (joinPath(dir, n) \in AllFiles /\ d[joinPath(dir, n)] # Absent)}
  IN SelectSeq2(EntryOrder(dir), names)

(***************************************************************************)
(* MiniSearch, as searchService.ts uses it (MINISEARCH_OPTIONS: fields     *)
(* title/content/path, default tokenizer and term processor).  The state   *)
(* of one MiniSearch object:                                               *)
(*   documentIds   short id -> document id          (_documentIds)         *)
(*   fieldLength   short id -> field -> unique terms (_fieldLength)        *)
(*   avgFieldLength field -> <<num, den>>, a reduced fraction              *)
(*   index         <<term, field, short id>> -> term frequency  (_index)   *)
(* _idToShortId is the inverse of documentIds; the stored fields (path,    *)
(* title) are functions of the id and are read by nothing in the service.  *)
(***************************************************************************)
Drop(f, keys) == [k \in (DOMAIN f) \ keys |-> f[k]]

RECURSIVE Gcd(_, _)
Gcd(a, b) == IF b = 0 THEN a ELSE Gcd(b, a % b)

Abs(n) == IF n < 0 THEN -n ELSE n

Frac(n, d) ==
  IF n = 0 THEN <<0, 1>>
  ELSE LET g == Gcd(Abs(n), d)
           q == Abs(n) \div g
       IN <<IF n < 0 THEN -q ELSE q, d \div g>>

SPACE_OR_PUNCTUATION == {" ", "/", ".", "\\"}

\* text.split(/[sep]+/u): a run of separators separates once
RECURSIVE SplitRuns(_, _, _, _)
SplitRuns(s, i, cur, inSep) ==
  IF i > Len(s) THEN <<cur>>
  ELSE IF s[i] \in SPACE_OR_PUNCTUATION
       THEN IF inSep THEN SplitRuns(s, i + 1, cur, TRUE)
            ELSE <<cur>> \o SplitRuns(s, i + 1, <<>>, TRUE)
       ELSE SplitRuns(s, i + 1, Append(cur, s[i]), FALSE)

tokenize(text) == SplitRuns(text, 1, <<>>, FALSE)

processTerm(term) == toLowerCase(term)

\* the processed, non-empty terms of a field value, in order
RECURSIVE ProcessAll(_)
ProcessAll(tokens) ==
  IF tokens = <<>> THEN <<>>
  ELSE IF processTerm(Head(tokens)) = <<>> THEN ProcessAll(Tail(tokens))
  ELSE <<processTerm(Head(tokens))>> \o ProcessAll(Tail(tokens))

FieldTerms(text) == ProcessAll(tokenize(text))

UniqueTerms(text) == Cardinality(Range(tokenize(text)))

Occurrences(terms, t) == Cardinality({i \in DOMAIN terms : terms[i] = t})

EmptyIndex ==
  [documentCount |-> 0,
   nextId |-> 0,
   documentIds |-> <<>>,
   fieldLength |-> <<>>,
   avgFieldLength |-> [f \in Fields |-> <<0, 1>>],
   index |-> <<>>]

DocIdsOf(ix) == Range(ix.documentIds)

ShortIdOf(ix, id) == CHOOSE sid \in DOMAIN ix.documentIds : ix.documentIds[sid] = id

\* addFieldLength: the running average over count documents takes in one more
addFieldLength(avg, count, length) ==
  Frac(avg[1] * count + length * avg[2], avg[2] * (count + 1))

\* removeFieldLength: the running average over count documents gives up one
removeFieldLength(avg, count, length) ==
  IF count = 1 THEN <<0, 1>>
  ELSE Frac(avg[1] * count - length * avg[2], avg[2] * (count - 1))

\* addTerm for every occurrence of every term of one field of document sid
AddTerms(index, f, sid, terms) ==
  LET new == {<<t, f, sid>> : t \in Range(terms)}
  IN [k \in (DOMAIN index) \cup new |->
        (IF k \in DOMAIN index THEN index[k] ELSE 0)
        + (IF k \in new THEN Occurrences(terms, k[1]) ELSE 0)]

\* removeTerm, once per occurrence; a term that is not in the index is skipped
RECURSIVE RemoveTerms(_, _, _, _)
RemoveTerms(index, f, sid, terms) ==
  IF terms = <<>> THEN index
  ELSE LET k == <<Head(terms), f, sid>>
           next == IF k \notin DOMAIN index THEN index
                   ELSE IF index[k] <= 1 THEN Drop(index, {k})
                   ELSE [index EXCEPT ![k] = @ - 1]
       IN RemoveTerms(next, f, sid, Tail(terms))

\* MiniSearch.add(document): [ok, ix]; throws on a duplicate id
MS_add(ix, document) ==
  IF document.id \in DocIdsOf(ix) THEN [ok |-> FALSE, ix |-> ix]
  ELSE
    LET sid == ix.nextId
        count == ix.documentCount + 1
        present == {f \in Fields : f \in DOMAIN document}
        RECURSIVE AddAll(_, _)
        AddAll(index, fs) ==
          IF fs = <<>> THEN index
          ELSE IF Head(fs) \in present
               THEN AddAll(AddTerms(index, Head(fs), sid, FieldTerms(document[Head(fs)])),
                           Tail(fs))
               ELSE AddAll(index, Tail(fs))
    IN [ok |-> TRUE,
        ix |-> [documentCount |-> count,
                nextId |-> ix.nextId + 1,
                documentIds |-> (sid :> document.id) @@ ix.documentIds,
                fieldLength |->
                  (sid :> [f \in present |-> UniqueTerms(document[f])]) @@ ix.fieldLength,
                avgFieldLength |->
                  [f \in Fields |->
                     IF f \in present
                     THEN addFieldLength(ix.avgFieldLength[f], count - 1,
                                         UniqueTerms(document[f]))
                     ELSE ix.avgFieldLength[f]],
                index |-> AddAll(ix.index, SEARCH_FIELDS)]]

\* MiniSearch.remove(document): [ok, ix]; throws when the id is not indexed.
\* Only the fields the passed document carries are taken out of the inverted
\* index and of the field-length average.
MS_remove(ix, document) ==
  IF document.id \notin DocIdsOf(ix) THEN [ok |-> FALSE, ix |-> ix]
  ELSE
    LET sid == ShortIdOf(ix, document.id)
        present == {f \in Fields : f \in DOMAIN document}
        RECURSIVE RemoveAllFields(_, _)
        RemoveAllFields(index, fs) ==
          IF fs = <<>> THEN index
          ELSE IF Head(fs) \in present
               THEN RemoveAllFields(
                      RemoveTerms(index, Head(fs), sid, FieldTerms(document[Head(fs)])),
                      Tail(fs))
               ELSE RemoveAllFields(index, Tail(fs))
    IN [ok |-> TRUE,
        ix |-> [documentCount |-> ix.documentCount - 1,
                nextId |-> ix.nextId,
                documentIds |-> Drop(ix.documentIds, {sid}),
                fieldLength |-> Drop(ix.fieldLength, {sid}),
                avgFieldLength |->
                  [f \in Fields |->
                     IF f \in present
                     THEN removeFieldLength(ix.avgFieldLength[f], ix.documentCount,
                                            UniqueTerms(document[f]))
                     ELSE ix.avgFieldLength[f]],
                index |-> RemoveAllFields(ix.index, SEARCH_FIELDS)]]

\* MiniSearch.removeAll() without arguments
MS_removeAll(ix) == EmptyIndex

(***************************************************************************)
(* JSON.stringify(index) and MiniSearch.loadJSON: the serialized form keys *)
(* fields by their numeric field id and nests the inverted index by term   *)
(* and field id.                                                           *)
(***************************************************************************)
FieldId(f) == (CHOOSE i \in DOMAIN SEARCH_FIELDS : SEARCH_FIELDS[i] = f) - 1

FieldOfId(n) == SEARCH_FIELDS[n + 1]

FieldIdSet == {FieldId(f) : f \in Fields}

MS_toJSON(ix) ==
  [documentCount |-> ix.documentCount,
   nextId |-> ix.nextId,
   documentIds |-> {<<sid, ix.documentIds[sid]>> : sid \in DOMAIN ix.documentIds},
   fieldIds |-> [f \in Fields |-> FieldId(f)],
   fieldLength |->
     {<<sid, [n \in FieldIdSet |->
                IF FieldOfId(n) \in DOMAIN ix.fieldLength[sid]
                THEN ix.fieldLength[sid][FieldOfId(n)] ELSE -1]>> :
        sid \in DOMAIN ix.fieldLength},
   averageFieldLength |-> [n \in FieldIdSet |-> ix.avgFieldLength[FieldOfId(n)]],
   index |->
     {<<t, [n \in {FieldId(k[2]) : k \in {k2 \in DOMAIN ix.index : k2[1] = t}} |->
              {<<k[3], ix.index[k]>> :
                 k \in {k2 \in DOMAIN ix.index : k2[1] = t /\ FieldId(k2[2]) = n}}]>> :
        t \in {k[1] : k \in DOMAIN ix.index}},
   serializationVersion |-> 2]

\* MiniSearch.loadJSON(json, options): [ok, ix]; throws on an unknown version
MS_loadJSON(js) ==
  IF js.serializationVersion \notin {1, 2} THEN [ok |-> FALSE, ix |-> EmptyIndex]
  ELSE
    LET keys == UNION {UNION {{<<e[1], FieldOfId(n), p[1]>> : p \in e[2][n]} :
                                n \in DOMAIN e[2]} : e \in js.index}
        freq(k) == LET e == CHOOSE e \in js.index : e[1] = k[1]
                       p == CHOOSE p \in e[2][FieldId(k[2])] : p[1] = k[3]
                   IN p[2]
    IN [ok |-> TRUE,
        ix |-> [documentCount |-> js.documentCount,
                nextId |-> js.nextId,
                documentIds |->
                  [sid \in {p[1] : p \in js.documentIds} |->
                     (CHOOSE p \in js.documentIds : p[1] = sid)[2]],
                fieldLength |->
                  [sid \in {p[1] : p \in js.fieldLength} |->
                     LET arr == (CHOOSE p \in js.fieldLength : p[1] = sid)[2]
                     IN [f \in {FieldOfId(n) : n \in {m \in DOMAIN arr : arr[m] # -1}} |->
                           arr[FieldId(f)]]],
                avgFieldLength |-> [f \in Fields |-> js.averageFieldLength[FieldId(f)]],
                index |-> [k \in keys |-> freq(k)]]]

(***************************************************************************)
(* MiniSearch.search with MINISEARCH_OPTIONS.searchOptions (prefix: true,  *)
(* fuzzy: 0.2, boost SEARCH_BOOST), query terms combined with OR.  A       *)
(* document's score is a fixed function (BM25+) of the contributions       *)
(* listed for it: per query term, matched index term and field, the kind   *)
(* of match, the term frequency, the number of documents matching, the     *)
(* document count, the field length and the average field length.          *)
(***************************************************************************)
Min(a, b) == IF a < b THEN a ELSE b

RECURSIVE Levenshtein(_, _)
Levenshtein(a, b) ==
  IF a = <<>> THEN Len(b)
  ELSE IF b = <<>> THEN Len(a)
  ELSE IF Head(a) = Head(b) THEN Levenshtein(Tail(a), Tail(b))
  ELSE 1 + Min(Levenshtein(Tail(a), Tail(b)),
               Min(Levenshtein(Tail(a), b), Levenshtein(a, Tail(b))))

\* fuzzy: 0.2 allows Math.round(term.length * 0.2) edits (the library's cap
\* maxFuzzy is above that for every term shorter than 28 characters)
MaxDistance(term) == (2 * Len(term) + 5) \div 10

IndexTerms(ix) == {k[1] : k \in DOMAIN ix.index}

\* how the index term t answers the query term qt: "exact", "prefix",
\* "fuzzy" (a prefix match is not counted again as a fuzzy one) or "none"
MatchKind(qt, t) ==
  IF t = qt THEN "exact"
  ELSE IF StartsWith(t, qt) THEN "prefix"
  ELSE IF MaxDistance(qt) > 0 /\ Levenshtein(qt, t) <= MaxDistance(qt) THEN "fuzzy"
  ELSE "none"

\* the short ids a term has postings for in a field
Postings(ix, t, f) == {k[3] : k \in {k2 \in DOMAIN ix.index : k2[1] = t /\ k2[2] = f}}

\* the postings termResults finds pointing at a document that is gone
StalePostings(ix, t, f) == Postings(ix, t, f) \ DOMAIN ix.documentIds

\* termResults: the contributions of index term t in field f, one per live
\* document; matchingFields counts down as removed documents are met
TermResults(ix, qi, t, kind, f) ==
  {[qi |-> qi, term |-> t, kind |-> kind, field |-> f, sid |-> sid,
    termFreq |-> ix.index[<<t, f, sid>>],
    matching |-> Cardinality(Postings(ix, t, f))
                 - Cardinality({x \in StalePostings(ix, t, f) : x < sid}),
    total |-> ix.documentCount,
    fieldLength |-> ix.fieldLength[sid][f],
    avgFieldLength |-> ix.avgFieldLength[f]] :
     sid \in Postings(ix, t, f) \cap DOMAIN ix.documentIds}

\* every contribution to the results of a query string
Contributions(ix, query) ==
  LET qts == FieldTerms(query)
  IN UNION {UNION {UNION {TermResults(ix, qi, t, MatchKind(qts[qi], t), f) : f \in Fields} :
                     t \in {u \in IndexTerms(ix) : MatchKind(qts[qi], u) # "none"}} :
              qi \in DOMAIN qts}

\* index.search(query): one result per matched document, with what decides
\* its score
MS_search(ix, query) ==
  LET cs == Contributions(ix, query)
  IN {[id |-> ix.documentIds[sid],
       parts |-> {[c EXCEPT !.sid = 0] : c \in {c2 \in cs : c2.sid = sid}}] :
        sid \in {c.sid : c \in cs}}

\* a search that drops every posting it comes across
MS_afterSearch_dropsMatched(ix, query) ==
  LET qts == FieldTerms(query)
      hit == {k \in DOMAIN ix.index :
                \E qi \in DOMAIN qts : MatchKind(qts[qi], k[1]) # "none"}
  IN [ix EXCEPT !.index = Drop(@, hit)]

\* the index after a search: termResults removes the postings of removed
\* documents that it comes across
MS_afterSearch(ix, query) ==
  LET qts == FieldTerms(query)
      hit == {k \in DOMAIN ix.index :
                /\ k[3] \notin DOMAIN ix.documentIds
                /\ \E qi \in DOMAIN qts : MatchKind(qts[qi], k[1]) # "none"}
  IN [ix EXCEPT !.index = Drop(@, hit)]

\* the index after autoSuggest(prefix, {prefix: true, fuzzy: false}): the
\* search inside it meets exact and prefix matches only
MS_afterSuggest(ix, query) ==
  LET qts == FieldTerms(query)
      hit == {k \in DOMAIN ix.index :
                /\ k[3] \notin DOMAIN ix.documentIds
                /\ \E qi \in DOMAIN qts : MatchKind(qts[qi], k[1]) \in {"exact", "prefix"}}
  IN [ix EXCEPT !.index = Drop(@, hit)]

\* SEARCH_BOOST = { title: 2, content: 1, path: 0.5 }, in halves
SEARCH_BOOST == [title |-> 4, content |-> 2, path |-> 1]

\* Math.log(1 + (totalCount - matchingCount + 0.5) / (matchingCount + 0.5))
\* in thousandths, rounded down and rounded up, by <<matchingCount,
\* totalCount>> for the document counts the model reaches
InvDocFreq ==
  (<<1, 1>> :> <<287, 288>>) @@
  (<<1, 2>> :> <<693, 694>>) @@ (<<2, 2>> :> <<182, 183>>) @@
  (<<1, 3>> :> <<980, 981>>) @@ (<<2, 3>> :> <<470, 471>>) @@
  (<<3, 3>> :> <<133, 134>>) @@
  (<<1, 4>> :> <<1203, 1204>>) @@ (<<2, 4>> :> <<693, 694>>) @@
  (<<3, 4>> :> <<356, 357>>) @@ (<<4, 4>> :> <<105, 106>>)

\* calcBM25Score with the library's parameters k = 1.2, b = 0.7, d = 0.5:
\*   invDocFreq * (d + termFreq * (k + 1)
\*                     / (termFreq + k * (1 - b + b * fieldLength / avgFieldLength)))
\* as a lower and an upper bound, in millionths
calcBM25Score(termFreq, matchingCount, totalCount, fieldLength, avgFieldLength) ==
  LET invDocFreq == InvDocFreq[<<matchingCount, totalCount>>]
      den == 25 * termFreq * avgFieldLength[1] + 9 * avgFieldLength[1]
               + 21 * fieldLength * avgFieldLength[2]
      lo == 500 + (55000 * termFreq * avgFieldLength[1]) \div den
  IN <<invDocFreq[1] * lo, invDocFreq[2] * (lo + 1)>>

\* bounds of the score of a result whose contributions are all exact matches
\* of one query term: the sum of boost * calcBM25Score over the fields
RECURSIVE ScoreBounds(_)
ScoreBounds(parts) ==
  IF parts = {} THEN <<0, 0>>
  ELSE LET c == CHOOSE x \in parts : TRUE
           raw == calcBM25Score(c.termFreq, c.matching, c.total, c.fieldLength,
                                c.avgFieldLength)
           rest == ScoreBounds(parts \ {c})
       IN <<rest[1] + SEARCH_BOOST[c.field] * raw[1],
            rest[2] + SEARCH_BOOST[c.field] * raw[2]>>

\* the orders index.search(query) can give its results: by descending score.
\* A score is the sum of its contributions, each positive, growing with the
\* term frequency and shrinking with the field length (BM25+), times the
\* number of query terms matched.  Two results made of exact matches of one
\* query term are compared by the bounds of their scores; where neither
\* that nor the comparison of the contributions decides, either order is
\* taken.
Rankings(ix, query) ==
  LET res == MS_search(ix, query)
      Computed(x, y) ==
        /\ \A c \in x \cup y :
             c.kind = "exact" /\ <<c.matching, c.total>> \in DOMAIN InvDocFreq
        /\ Cardinality({c.qi : c \in x \cup y}) = 1
      AtLeast(c, e) ==
        /\ [c EXCEPT !.termFreq = 0, !.fieldLength = 0]
             = [e EXCEPT !.termFreq = 0, !.fieldLength = 0]
        /\ c.termFreq >= e.termFreq
        /\ c.fieldLength <= e.fieldLength
      ScoreAbove(x, y) ==
        \/ /\ \A e \in y : \E c \in x : AtLeast(c, e)
           /\ \/ \E e \in y : \E c \in x : AtLeast(c, e) /\ c # e
              \/ \E c \in x : \A e \in y : ~AtLeast(c, e)
        \/ Computed(x, y) /\ ScoreBounds(x)[1] > ScoreBounds(y)[2]
  IN {rk \in [1..Cardinality(res) -> res] :
        /\ \A i, j \in DOMAIN rk : i # j => rk[i] # rk[j]
        /\ \A i, j \in DOMAIN rk : i < j => ~ScoreAbove(rk[j].parts, rk[i].parts)}

\* index.autoSuggest(prefix, {prefix: true, fuzzy: false}): one suggestion
\* per set of matched index terms of a result (query terms combined with
\* AND); a suggestion is given as the set of terms it is made of
MS_autoSuggest(ix, query) ==
  LET qts == FieldTerms(query)
      kind(qi, t) == IF t = qts[qi] THEN "exact"
                     ELSE IF StartsWith(t, qts[qi]) THEN "prefix" ELSE "none"
      has(sid, t) == \E f \in Fields : <<t, f, sid>> \in DOMAIN ix.index
      matched(sid) == {t \in IndexTerms(ix) :
                         has(sid, t) /\ \E qi \in DOMAIN qts : kind(qi, t) # "none"}
      hits == {sid \in DOMAIN ix.documentIds :
                 /\ qts # <<>>
                 /\ \A qi \in DOMAIN qts :
                      \E t \in IndexTerms(ix) : has(sid, t) /\ kind(qi, t) # "none"}
  IN {matched(sid) : sid \in hits}

(***************************************************************************)
(* JavaScript Set<string> (insertion ordered): a sequence without repeats  *)
(***************************************************************************)
SetHas(s, x) == x \in Range(s)

SetAdd(s, x) == IF SetHas(s, x) THEN s ELSE Append(s, x)

SetDelete(s, x) == SelectSeq2(s, Range(s) \ {x})

\* Array.from(set)
ArrayFrom(s) == s

\* new Set(array)
RECURSIVE NewSet(_)
NewSet(arr) == IF arr = <<>> THEN <<>> ELSE SetAdd(NewSet(SubSeq(arr, 1, Len(arr) - 1)), arr[Len(arr)])

(***************************************************************************)
(* State                                                                   *)
(***************************************************************************)
VARIABLES
  disk,          \* notes directory: file path -> text, or Absent
  unreadable,    \* files and directories whose read fails (EACCES)
  snapshotFile,  \* content of SEARCH_INDEX_FILE
  heap,          \* the MiniSearch objects of the running process
  searchIndex,   \* module variable searchIndex: position in heap, 0 = null
  indexedPaths,  \* module variable indexedPaths
  tasks,         \* the async calls in flight, each at a suspension point
  queue,         \* watcher events emitted and not yet handled, oldest first
  server,        \* "down", "starting" (main before listen), "up"
  fuel,          \* file changes, requests and kills still to come
  \* history variables: what a caller or an observer of the run has seen
  lastBuild,     \* how the last buildIndex() of this process ended
  killedIn,      \* the last kill hit an index update that was not yet saved
  evSeq,         \* number of watcher events handled so far
  appliedSeq,    \* path -> the event whose index mutation took effect last
  missed,        \* a file changed while no watcher was there to report it
  rt,            \* progress of buildIndex(); saveIndex(); restart; buildIndex()
  lastIndexed,   \* the last indexFile() call and what queries gave after it
  lastRemoved,   \* the last removeFromIndex() of a tracked path, and which
                 \* documents the queries found before and after it
  lastCall,      \* the last indexFile() or removeFromIndex() that returned,
                 \* and what it did to the index and to indexedPaths
  lastQuery,     \* the last search() or getSuggestions() call, what
                 \* index.search gave it and what the call did to the index
  lastEvent,     \* the last handleFileEvent() that returned: the calls it
                 \* made, in order
  burst,         \* the events handled since the service was last idle, and
                 \* the index and indexedPaths of that moment
  writeFailed    \* a writeFile of saveIndex() failed in this process

hist == <<lastBuild, killedIn, evSeq, appliedSeq, missed, rt, lastIndexed, lastRemoved,
          lastCall, lastQuery, lastEvent, burst, writeFailed>>

vars == <<disk, unreadable, snapshotFile, heap, searchIndex, indexedPaths, tasks,
          queue, server, fuel, hist>>

NoSnap == [kind |-> "none", data |-> <<>>, paths |-> <<>>]
PartialSnap == [kind |-> "partial", data |-> <<>>, paths |-> <<>>]

\* snapshot files a starting process can find: none, a truncated one, one
\* written by an earlier run when a.md was the only note, the same without
\* read permission, and JSON documents {data, paths} with the paths member
\* missing, the paths member a number, the data member missing, and the
\* snapshot saveIndex() writes once an indexFile('b/c.md') that overlapped a
\* reindex has tracked a path the live index does not hold
SnapChoices ==
  LET ix == MS_add(EmptyIndex, [id |-> P_a, path |-> P_a,
                                title |-> basenameExt(P_a, extname(P_a)),
                                content |-> Text1]).ix
      good == [kind |-> "complete", data |-> MS_toJSON(ix), paths |-> <<P_a>>]
  IN {NoSnap, PartialSnap, good,
      [good EXCEPT !.kind = "unreadable"],
      [good EXCEPT !.kind = "nopaths", !.paths = <<>>],
      [good EXCEPT !.kind = "badpaths", !.paths = <<>>],
      [good EXCEPT !.kind = "nodata", !.data = <<>>],
      [good EXCEPT !.paths = <<P_a, P_bc>>]}

NewTask(kind, etype, path) ==
  [kind |-> kind, pc |-> "new", etype |-> etype, path |-> path, idx |-> 0,
   ok |-> TRUE, val |-> <<>>, snap |-> NoSnap, stack |-> <<>>, phase |-> "none",
   \* history: the eligible readable documents at the call of buildIndex, how
   \* buildIndex ended in this stretch, the number of the event handled, the
   \* kind of snapshot file at the call of buildIndex
   atCall |-> {}, ret |-> "none", seq |-> 0, snapAt |-> "none",
   \* history: the indexFile in flight removed an entry before its readFile
   had |-> FALSE,
   \* history: per query, the paths search() found at the call of buildIndex
   pre |-> <<>>,
   \* history: the calls made so far, in order; the calls buildIndex had made
   \* when it returned; a /reindex was in progress while this handler ran;
   \* the index held the documents of indexedPaths when saveIndex was called
   trace |-> <<>>, calls |-> <<>>, overlap |-> FALSE, agreed |-> TRUE]

Mem == [heap |-> heap, searchIndex |-> searchIndex, indexedPaths |-> indexedPaths]

ColdMem == [heap |-> <<>>, searchIndex |-> 0, indexedPaths |-> <<>>]

\* existsSync(sandboxPath(relativePath))
existsSync(p) == p \in Dirs \/ (p \in AllFiles /\ disk[p] # Absent)

getSearchIndex(m) ==
  IF m.searchIndex = 0
  THEN [m EXCEPT !.heap = Append(@, EmptyIndex), !.searchIndex = Len(m.heap) + 1]
  ELSE m

(***************************************************************************)
(* The synchronous stretches of the service's async functions.  Each takes *)
(* the module state m (and the task) and gives the state at the next       *)
(* suspension on file I/O.  An await on a call that returned without       *)
(* starting I/O resumes before any I/O callback and is part of the stretch.*)
(***************************************************************************)
Stay(m, t) == [m |-> m, task |-> t, done |-> "run"]

Finish(m, t, how) == [m |-> m, task |-> t, done |-> how]

\* a saveIndex that serializes the index and leaves the paths array empty
saveIndex_dataOnly(m, t, phase) ==
  LET g == getSearchIndex(m)
      data == MS_toJSON(g.heap[g.searchIndex])
      cached == [kind |-> "complete", data |-> data, paths |-> <<>>]
  IN Stay(g, [t EXCEPT !.pc = "wr_open", !.snap = cached, !.phase = phase,
                       !.val = <<>>, !.ok = TRUE, !.idx = 0,
                       !.trace = Append(@, IF phase = "route" THEN "route.saveIndex"
                                           ELSE "saveIndex"),
                       !.agreed = (DocIdsOf(g.heap[g.searchIndex])
                                     = Range(g.indexedPaths))])

\* saveIndex up to `await writeFile`
saveIndex(m, t, phase) ==
  LET g == getSearchIndex(m)
      data == MS_toJSON(g.heap[g.searchIndex])
      cached == [kind |-> "complete", data |-> data, paths |-> ArrayFrom(g.indexedPaths)]
  IN Stay(g, [t EXCEPT !.pc = "wr_open", !.snap = cached, !.phase = phase,
                       !.val = <<>>, !.ok = TRUE, !.idx = 0,
                       !.trace = Append(@, IF phase = "route" THEN "route.saveIndex"
                                           ELSE "saveIndex"),
                       !.agreed = (DocIdsOf(g.heap[g.searchIndex])
                                     = Range(g.indexedPaths))])

\* an indexFile that, finding the path tracked, empties the index and
\* indexedPaths instead of taking out the one document
indexFileHead_clearsAll(m, relativePath) ==
  LET g == getSearchIndex(m)
      index == g.searchIndex
  IN IF ~existsSync(relativePath) \/ ~isMarkdownFile(relativePath)
     THEN [m |-> g, suspended |-> FALSE, idx |-> 0, had |-> FALSE]
     ELSE IF SetHas(g.indexedPaths, relativePath)
     THEN [m |-> [g EXCEPT !.heap[index] = MS_removeAll(@), !.indexedPaths = <<>>],
           suspended |-> TRUE, idx |-> index, had |-> TRUE]
     ELSE [m |-> g, suspended |-> TRUE, idx |-> index, had |-> FALSE]

\* indexFile up to `await readFile`: [m, suspended, idx]
indexFileHead(m, relativePath) ==
  LET g == getSearchIndex(m)
      index == g.searchIndex
  IN IF ~existsSync(relativePath) \/ ~isMarkdownFile(relativePath)
     THEN [m |-> g, suspended |-> FALSE, idx |-> 0, had |-> FALSE]
     ELSE IF SetHas(g.indexedPaths, relativePath)
     THEN [m |-> [g EXCEPT !.heap[index] = MS_remove(@, [id |-> relativePath]).ix,
                           !.indexedPaths = SetDelete(@, relativePath)],
           suspended |-> TRUE, idx |-> index, had |-> TRUE]
     ELSE [m |-> g, suspended |-> TRUE, idx |-> index, had |-> FALSE]

\* indexFile after `await readFile` settled with (ok, content)
indexFileTail(m, relativePath, idx, ok, content) ==
  LET title == basenameExt(relativePath, extname(relativePath))
      document == [id |-> relativePath, path |-> relativePath,
                   title |-> title, content |-> content]
      r == MS_add(m.heap[idx], document)
  IN IF ok /\ r.ok
     THEN [m EXCEPT !.heap[idx] = r.ix, !.indexedPaths = SetAdd(@, relativePath)]
     ELSE m

\* a removeFromIndex that forgets index.remove and only untracks the path
removeFromIndex_untrackOnly(m, relativePath) ==
  LET g == getSearchIndex(m)
  IN [g EXCEPT !.indexedPaths = SetDelete(@, relativePath)]

\* removeFromIndex (it never suspends)
removeFromIndex(m, relativePath) ==
  LET g == getSearchIndex(m)
      index == g.searchIndex
      r == MS_remove(g.heap[index], [id |-> relativePath])
  IN IF SetHas(g.indexedPaths, relativePath) /\ r.ok
     THEN [g EXCEPT !.heap[index] = r.ix, !.indexedPaths = SetDelete(@, relativePath)]
     ELSE g

\* buildIndex returned to its caller: main goes on to initWatcher and listen,
\* the /reindex route goes on to its own saveIndex()
buildReturn(m, t, how) ==
  LET t2 == [t EXCEPT !.ret = how, !.calls = t.trace]
  IN IF t.kind = "main" THEN Finish(m, t2, "up") ELSE saveIndex(m, t2, "route")

\* the loop of indexDirectory over the frames of t.stack, up to the next
\* readdir or readFile; after the last frame buildIndex calls saveIndex
RECURSIVE indexDirectory(_, _)
indexDirectory(m, t) ==
  IF t.stack = <<>> THEN saveIndex(m, t, "build")
  ELSE
    LET top == t.stack[Len(t.stack)]
        below == SubSeq(t.stack, 1, Len(t.stack) - 1)
    IN IF top.todo = <<>> THEN indexDirectory(m, [t EXCEPT !.stack = below])
       ELSE
         LET name == Head(top.todo)
             rest == Append(below, [top EXCEPT !.todo = Tail(top.todo)])
             entryPath == joinPath(top.dir, name)
         IN IF StartsWith(name, <<".">>) THEN indexDirectory(m, [t EXCEPT !.stack = rest])
            ELSE IF IsDirEntry(top.dir, name)
            THEN IF existsSync(entryPath)
                 THEN Stay(m, [t EXCEPT !.pc = "dir_io",
                                        !.stack = Append(rest, [dir |-> entryPath, todo |-> <<>>])])
                 ELSE indexDirectory(m, [t EXCEPT !.stack = rest])
            ELSE IF isMarkdownFile(name)
            THEN LET h == indexFileHead(m, entryPath)
                     t1 == [t EXCEPT !.stack = rest, !.trace = Append(@, "indexFile")]
                 IN IF h.suspended
                    THEN Stay(h.m, [t1 EXCEPT !.pc = "if_io",
                                              !.path = entryPath, !.idx = h.idx,
                                              !.had = h.had])
                    ELSE indexDirectory(h.m, t1)
            ELSE indexDirectory(m, [t EXCEPT !.stack = rest])

\* indexDirectory(''): existsSync(root), then readdir
startTraversal(m, t) ==
  LET t1 == [t EXCEPT !.trace = Append(@, "indexDirectory")]
  IN IF existsSync(D_root)
     THEN Stay(m, [t1 EXCEPT !.pc = "dir_io", !.stack = <<[dir |-> D_root, todo |-> <<>>]>>,
                             !.snap = NoSnap, !.ok = TRUE])
     ELSE saveIndex(m, t1, "build")

\* buildIndex up to its first await
buildIndexHead(m, t) ==
  LET g == getSearchIndex(m)
      index == g.searchIndex
      cleared == [g EXCEPT !.heap[index] = MS_removeAll(@), !.indexedPaths = <<>>]
  IN IF snapshotFile.kind # "none"
     THEN Stay(cleared, [t EXCEPT !.pc = "b_io"])
     ELSE startTraversal(cleared, t)

\* a buildIndex that walks the notes directory also after it has loaded the
\* snapshot
buildIndexTail_alwaysTraverses(m, t) ==
  LET kind == t.snap.kind
      parsed == t.ok /\ kind \in {"complete", "nopaths", "badpaths", "nodata"}
      loaded == IF parsed /\ kind # "nodata" THEN MS_loadJSON(t.snap.data)
                ELSE [ok |-> FALSE, ix |-> EmptyIndex]
      assigned == [m EXCEPT !.heap = Append(m.heap, loaded.ix),
                            !.searchIndex = Len(m.heap) + 1]
  IN IF ~(parsed /\ loaded.ok) THEN startTraversal(m, t)
     ELSE IF kind = "badpaths" THEN startTraversal(assigned, t)
     ELSE startTraversal([assigned EXCEPT !.indexedPaths =
                             NewSet(IF kind = "nopaths" THEN <<>> ELSE t.snap.paths)],
                         t)

\* buildIndex after `await readFile(SEARCH_INDEX_FILE)` settled
buildIndexTail(m, t) ==
  LET kind == t.snap.kind
      \* JSON.parse(cached) gives an object
      parsed == t.ok /\ kind \in {"complete", "nopaths", "badpaths", "nodata"}
      \* MiniSearch.loadJSON(data): JSON.parse(undefined) throws
      loaded == IF parsed /\ kind # "nodata" THEN MS_loadJSON(t.snap.data)
                ELSE [ok |-> FALSE, ix |-> EmptyIndex]
      \* searchIndex = ... is assigned before new Set(paths) is evaluated
      assigned == [m EXCEPT !.heap = Append(m.heap, loaded.ix),
                            !.searchIndex = Len(m.heap) + 1]
  IN IF ~(parsed /\ loaded.ok) THEN startTraversal(m, t)
     ELSE IF kind = "badpaths"
     \* new Set(paths) throws for a value that is not iterable
     THEN startTraversal(assigned, t)
     \* new Set(undefined) is the empty set
     ELSE buildReturn([assigned EXCEPT !.indexedPaths =
                          NewSet(IF kind = "nopaths" THEN <<>> ELSE t.snap.paths)],
                      [t EXCEPT !.snap = NoSnap], "loaded")

\* broadcastEvent({type, path}): the message goes to every open client
broadcastEvent(t) == [t EXCEPT !.trace = Append(@, "broadcastEvent")]

\* what follows a settled saveIndex in its caller: buildIndex returns, the
\* watcher's handler broadcasts the event, the /reindex route answers
afterSave(m, t) ==
  CASE t.phase = "build" -> buildReturn(m, [t EXCEPT !.snap = NoSnap], "rebuilt")
    [] t.phase = "handler" -> Finish(m, broadcastEvent(t), "end")
    [] OTHER -> Finish(m, t, "end")

(***************************************************************************)
(* search and getSuggestions of the service                                *)
(***************************************************************************)
\* query.trim().length === 0
IsBlank(query) == \A i \in DOMAIN query : query[i] = " "

\* search(query) without scope, for fewer hits than the limit: the results
\* as a set (their order is by score)
search(m, query) ==
  LET g == getSearchIndex(m)
  IN IF IsBlank(query) THEN {}
     ELSE {[path |-> r.id, name |-> basenameExt(r.id, extname(r.id)), score |-> r.parts] :
             r \in MS_search(g.heap[g.searchIndex], query)}

\* getSuggestions(prefix) for fewer suggestions than the limit
getSuggestions(m, prefix) ==
  LET g == getSearchIndex(m)
  IN IF IsBlank(prefix) THEN {} ELSE MS_autoSuggest(g.heap[g.searchIndex], prefix)

SEARCH_DEFAULT_LIMIT == 50

\* scope.replace(/^\/+|\/+$/g, '')
RECURSIVE TrimSlashes(_)
TrimSlashes(x) ==
  IF x # <<>> /\ Head(x) = "/" THEN TrimSlashes(Tail(x))
  ELSE IF x # <<>> /\ x[Len(x)] = "/" THEN TrimSlashes(SubSeq(x, 1, Len(x) - 1))
  ELSE x

\* the list search() returns for the results it kept
Answer(sliced) ==
  [i \in DOMAIN sliced |->
     [path |-> sliced[i].id,
      name |-> basenameExt(sliced[i].id, extname(sliced[i].id)),
      score |-> sliced[i].parts]]

\* a search that ignores its scope
searchResults_noScope(rk, query, scope, limit) ==
  LET n == IF limit = 0 THEN SEARCH_DEFAULT_LIMIT ELSE limit
  IN IF IsBlank(query) THEN <<>> ELSE Answer(SubSeq(rk, 1, Min(n, Len(rk))))

\* a search that takes a missing scope for the root folder and returns only
\* the notes directly in it
searchResults_rootOnly(rk, query, scope, limit) ==
  LET inScope(r) == IF scope = <<>> THEN "/" \notin Range(r.id)
                    ELSE StartsWith(r.id, TrimSlashes(scope))
      filtered == SelectSeq(rk, inScope)
      n == IF limit = 0 THEN SEARCH_DEFAULT_LIMIT ELSE limit
  IN IF IsBlank(query) THEN <<>> ELSE Answer(SubSeq(filtered, 1, Min(n, Len(filtered))))

\* a search that cuts the ranking to the limit before it filters by scope
searchResults_limitFirst(rk, query, scope, limit) ==
  LET inScope(r) == StartsWith(r.id, TrimSlashes(scope))
      n == IF limit = 0 THEN SEARCH_DEFAULT_LIMIT ELSE limit
      sliced == SubSeq(rk, 1, Min(n, Len(rk)))
  IN IF IsBlank(query) THEN <<>>
     ELSE Answer(IF scope # <<>> THEN SelectSeq(sliced, inScope) ELSE sliced)

\* a search that answers a blank query with a note
searchResults_blankAnswers(rk, query, scope, limit) ==
  LET inScope(r) == StartsWith(r.id, TrimSlashes(scope))
      filtered == IF scope # <<>> THEN SelectSeq(rk, inScope) ELSE rk
      n == IF limit = 0 THEN SEARCH_DEFAULT_LIMIT ELSE limit
  IN IF IsBlank(query) THEN Answer(<<[id |-> P_a, parts |-> {}]>>)
     ELSE Answer(SubSeq(filtered, 1, Min(n, Len(filtered))))

\* search(query, scope, limit) from its blank check on, for the list rk that
\* index.search(query) gives; scope <<>> is a scope that is undefined or '',
\* limit 0 is a call without limit
searchResults(rk, query, scope, limit) ==
  LET scopePath == TrimSlashes(scope)
      inScope(r) == StartsWith(r.id, scopePath)
      filtered == IF scope # <<>> THEN SelectSeq(rk, inScope) ELSE rk
      n == IF limit = 0 THEN SEARCH_DEFAULT_LIMIT ELSE limit
      sliced == SubSeq(filtered, 1, Min(n, Len(filtered)))
  IN IF IsBlank(query) THEN <<>> ELSE Answer(sliced)

\* the scopes and limits of the requests
Scopes == {<<>>, <<"b">>, <<"/", "b", "/">>}
Limits == {0, 1}

Q_ro == <<"r", "o">>
Q_map == <<"m", "a", "p">>
Q_mad == <<"m", "a", "d">>
Q_c == <<"c">>
Queries == {Q_ro, Q_map, Q_mad, Q_c}
Q_blank == <<" ">>

(***************************************************************************)
(* History: what the run has shown so far                                  *)
(***************************************************************************)
\* the documents indexDirectory('') finds and indexFile can read
Eligible(d, bad) ==
  {p \in AllFiles : /\ d[p] # Absent
                    /\ isMarkdownFile(p)
                    /\ ~isHiddenPath(p)
                    /\ p \notin bad}

\* what search() answers to each of the queries
Results(m) == [q \in Queries |-> search(m, q)]

NoResults == [q \in Queries |-> {}]

\* the paths search() returns for a query
HitPaths(m, query) == {r.path : r \in search(m, query)}

\* the documents search() finds for each of the queries
Hits(m) == [q \in Queries |-> HitPaths(m, q)]

NoRemoved == [path |-> <<>>, before |-> NoResults, after |-> NoResults]

\* the postings of document id in index ix: <<term, field, frequency>>
DocOf(ix, id) ==
  {<<k[1], k[2], ix.index[k]>> : k \in {k2 \in DOMAIN ix.index : k2[3] = ShortIdOf(ix, id)}}

NoQuery == [fn |-> "none", q |-> <<>>, rank |-> <<>>,
            out |-> [sn \in Scopes \X Limits |-> <<>>], sugg |-> {}, same |-> TRUE,
            kept |-> TRUE, cleared |-> FALSE]

\* lastQuery for a call fn(q) that found the index b and left it as a: what
\* index.search gave (rank), what search() returns for each scope and limit
\* (out), the suggestions, whether the index object is as it was (same),
\* whether its documents are (kept), and whether the search ran on an index
\* that a buildIndex() in flight had cleared and not yet filled again while
\* the index before that buildIndex() had answers to it (cleared)
QueryOf(fn, q, rk, sugg, b, a) ==
  [fn |-> fn, q |-> q, rank |-> rk,
   out |-> [sn \in Scopes \X Limits |->
              IF fn = "search" THEN searchResults(rk, q, sn[1], sn[2]) ELSE <<>>],
   sugg |-> sugg,
   same |-> a = b,
   kept |-> /\ a.documentIds = b.documentIds
            /\ a.fieldLength = b.fieldLength
            /\ \A id \in DocIdsOf(b) : DocOf(a, id) = DocOf(b, id),
   cleared |-> /\ fn = "search"
               /\ q \in Queries
               /\ DocIdsOf(b) = {}
               /\ \E i \in DOMAIN tasks :
                    /\ tasks[i].kind = "reindex"
                    /\ tasks[i].pc = "b_io"
                    /\ tasks[i].pre[q] # {}]

NoCall == [fn |-> "none", path |-> <<>>, case |-> "none", same |-> TRUE,
           gone |-> FALSE, others |-> TRUE, onDisk |-> FALSE]

\* lastCall for a removeFromIndex(path) that took the module state from b to a
RemovedCall(path, b, a) ==
  LET bix == b.heap[b.searchIndex]
      aix == a.heap[a.searchIndex]
  IN [fn |-> "removeFromIndex", path |-> path,
      case |-> IF SetHas(b.indexedPaths, path) THEN "tracked" ELSE "untracked",
      same |-> a = b,
      gone |-> path \notin DocIdsOf(aix) /\ ~SetHas(a.indexedPaths, path),
      others |-> /\ DocIdsOf(aix) \ {path} = DocIdsOf(bix) \ {path}
                 /\ \A q \in DocIdsOf(bix) \ {path} : DocOf(aix, q) = DocOf(bix, q)
                 /\ SetDelete(a.indexedPaths, path) = SetDelete(b.indexedPaths, path),
      onDisk |-> disk[path] # Absent]

\* lastCall for an indexFile(path) that returned
IndexedCall(path, case, same) ==
  [NoCall EXCEPT !.fn = "indexFile", !.path = path, !.case = case, !.same = same,
                 !.onDisk = disk[path] # Absent]

NoBuild == [who |-> "none", how |-> "none", expected |-> {}, got |-> {},
            snap |-> "none", asFull |-> FALSE, calls |-> <<>>, asSnap |-> FALSE]

\* the state buildIndex() ends in when it finds no snapshot file: the notes
\* indexDirectory('') reaches and indexFile can read, added in readdir order
\* to the cleared index
RECURSIVE FullBuild(_, _)
FullBuild(m, todo) ==
  IF todo = <<>> THEN m
  ELSE LET p == Head(todo)
       IN IF p \in Eligible(disk, unreadable)
          THEN FullBuild(indexFileTail(m, p, m.searchIndex, TRUE, disk[p]), Tail(todo))
          ELSE FullBuild(m, Tail(todo))

FullState ==
  FullBuild([heap |-> <<EmptyIndex>>, searchIndex |-> 1, indexedPaths |-> <<>>],
            <<P_a, P_bc>>)

IdleRt == [phase |-> "idle", paths |-> {}, res |-> NoResults]

NoIndexed == [n |-> 0, path |-> <<>>, text |-> <<>>, paths |-> {}, res |-> NoResults]

\* lastBuild after the stretch with outcome r: buildIndex returned or threw
BuiltAfter(r) ==
  IF r.task.ret = "none" THEN lastBuild
  ELSE [who |-> r.task.kind, how |-> r.task.ret, expected |-> r.task.atCall,
        got |-> Range(r.m.indexedPaths), snap |-> r.task.snapAt,
        asFull |-> /\ r.m.searchIndex # 0
                   /\ r.m.heap[r.m.searchIndex] = FullState.heap[1]
                   /\ r.m.indexedPaths = FullState.indexedPaths,
        calls |-> r.task.calls,
        \* the index is the deserialized data of the snapshot file and
        \* indexedPaths its paths array
        asSnap |-> /\ r.task.ret = "loaded"
                   /\ snapshotFile.kind = "complete"
                   /\ r.m.heap[r.m.searchIndex] = MS_loadJSON(snapshotFile.data).ix
                   /\ r.m.indexedPaths = snapshotFile.paths]

\* rt after the stretch with outcome r: the saveIndex() of the /reindex route
\* returned, or the buildIndex() of a restarted process returned
RtAfter(r) ==
  IF r.done = "end" /\ r.task.kind = "reindex" /\ r.task.phase = "route"
     /\ r.task.ret = "none"
  THEN [phase |-> "saved", paths |-> Range(r.m.indexedPaths), res |-> Results(r.m)]
  ELSE IF r.task.kind = "main" /\ r.task.ret \in {"loaded", "rebuilt"} THEN IdleRt
  ELSE rt

NoEvent == [type |-> "none", path |-> <<>>, trace |-> <<>>, overlap |-> FALSE]

\* lastEvent after the stretch with outcome r: handleFileEvent returned
EventAfter(r) ==
  IF r.done = "end" /\ r.task.kind = "event"
  THEN [type |-> r.task.etype, path |-> r.task.path, trace |-> r.task.trace,
        overlap |-> r.task.overlap]
  ELSE lastEvent

NoBurst == [base |-> ColdMem, evs |-> <<>>]

(***************************************************************************)
(* Actions                                                                 *)
(***************************************************************************)
RemoveAt(seq, i) == SubSeq(seq, 1, i - 1) \o SubSeq(seq, i + 1, Len(seq))

\* garbage collection: MiniSearch objects that neither searchIndex nor a
\* suspended indexFile refers to are dropped, the others keep their order
Collect(m, ts) ==
  LET keep == ({m.searchIndex} \cup {ts[j].idx : j \in DOMAIN ts}) \ {0}
      pos(k) == Cardinality({j \in keep : j <= k})
      at(n) == CHOOSE k \in keep : pos(k) = n
  IN [m |-> [heap |-> [n \in 1..Cardinality(keep) |-> m.heap[at(n)]],
             searchIndex |-> IF m.searchIndex = 0 THEN 0 ELSE pos(m.searchIndex),
             indexedPaths |-> m.indexedPaths],
      tasks |-> [j \in DOMAIN ts |->
                   [ts[j] EXCEPT !.idx = IF @ = 0 THEN 0 ELSE pos(@)]]]

\* the process is gone: process.exit(1) of main().catch, or a kill
Exit ==
  /\ heap' = <<>>
  /\ searchIndex' = 0
  /\ indexedPaths' = <<>>
  /\ tasks' = <<>>
  /\ queue' = <<>>
  /\ server' = "down"

\* the outcome r of a synchronous stretch of task i of the task list base;
\* q and srv are the queue and the server state unless the process exits
Apply(base, i, r, q, srv) ==
  IF r.done = "exit"
  THEN Exit
  ELSE LET stored == [r.task EXCEPT !.ret = "none", !.calls = <<>>]
           ts == IF r.done = "run" THEN [base EXCEPT ![i] = stored] ELSE RemoveAt(base, i)
           c == Collect(r.m, ts)
       IN /\ heap' = c.m.heap
          /\ searchIndex' = c.m.searchIndex
          /\ indexedPaths' = c.m.indexedPaths
          /\ tasks' = c.tasks
          /\ queue' = q
          /\ server' = IF r.done = "up" THEN "up" ELSE srv

\* index.ts main(): the process starts and calls buildIndex()
Boot ==
  /\ server = "down"
  /\ LET t == [NewTask("main", "none", <<>>) EXCEPT !.atCall = Eligible(disk, unreadable),
                                                   !.snapAt = snapshotFile.kind]
     IN Apply(<<t>>, 1, buildIndexHead(ColdMem, t), <<>>, "starting")
  /\ lastBuild' = NoBuild
  /\ lastIndexed' = NoIndexed
  /\ lastQuery' = NoQuery
  /\ lastEvent' = NoEvent
  /\ burst' = NoBurst
  /\ writeFailed' = FALSE
  /\ UNCHANGED <<disk, unreadable, snapshotFile, fuel, killedIn, evSeq, appliedSeq,
                 missed, rt,
                 lastRemoved, lastCall>>

\* the process is killed
Crash ==
  /\ server # "down"
  /\ fuel > 0
  /\ fuel' = fuel - 1
  /\ Exit
  /\ lastBuild' = NoBuild
  /\ killedIn' = \E i \in DOMAIN tasks :
                    tasks[i].pc \in {"if_io", "if_resume", "wr_open", "wr_write"}
  /\ missed' = TRUE
  /\ rt' = IF \/ rt.phase = "saved" /\ tasks = <<>> /\ queue = <<>>
              \/ rt.phase = "restarted"
           THEN [rt EXCEPT !.phase = "restarted"]
           ELSE IdleRt
  /\ lastIndexed' = NoIndexed
  /\ lastQuery' = NoQuery
  /\ lastEvent' = NoEvent
  /\ burst' = NoBurst
  /\ writeFailed' = FALSE
  /\ UNCHANGED <<disk, unreadable, snapshotFile, evSeq, appliedSeq, lastRemoved, lastCall>>

EventType(old, new) ==
  IF old = Absent THEN "created" ELSE IF new = Absent THEN "deleted" ELSE "modified"

\* a note is created, rewritten or deleted; the watcher (chokidar, running
\* once initWatcher was called) emits add / change / unlink
FsChange(p, c) ==
  /\ fuel > 0
  /\ c # disk[p]
  /\ disk' = [disk EXCEPT ![p] = c]
  /\ fuel' = fuel - 1
  /\ queue' = IF server = "up"
              THEN Append(queue, [type |-> EventType(disk[p], c), path |-> p])
              ELSE queue
  /\ missed' = (missed \/ server # "up")
  /\ rt' = IdleRt
  /\ lastQuery' = NoQuery
  /\ lastEvent' = NoEvent
  /\ burst' = NoBurst
  /\ UNCHANGED <<unreadable, snapshotFile, heap, searchIndex, indexedPaths, tasks,
                 server, lastBuild, killedIn, evSeq, appliedSeq, lastIndexed,
                 lastRemoved, lastCall, writeFailed>>

\* a file is rewritten with the text it had
FsTouch(p) ==
  /\ fuel > 0
  /\ server = "up"
  /\ disk[p] # Absent
  /\ fuel' = fuel - 1
  /\ queue' = Append(queue, [type |-> "modified", path |-> p])
  /\ rt' = IdleRt
  /\ lastQuery' = NoQuery
  /\ lastEvent' = NoEvent
  /\ burst' = NoBurst
  /\ UNCHANGED <<disk, unreadable, snapshotFile, heap, searchIndex, indexedPaths, tasks,
                 server, lastBuild, killedIn, evSeq, appliedSeq, missed, lastIndexed,
                 lastRemoved, lastCall, writeFailed>>

\* a handler that drops hidden paths only
Dropped_hiddenOnly(relativePath) == isHiddenPath(relativePath)

\* a handler that drops only what is not a markdown file
Dropped_nonMarkdownOnly(relativePath) == ~isMarkdownFile(relativePath)

\* an event the handler drops at once
Dropped(relativePath) ==
  isHiddenPath(relativePath) \/ ~isMarkdownFile(relativePath)

\* a handler that saves only when removeFromIndex changed something
handleFileEvent_saveOnChange(m, t) ==
  IF Dropped(t.path)
  THEN Finish(m, t, "end")
  ELSE IF t.etype = "deleted"
  THEN LET t1 == [t EXCEPT !.trace = Append(@, "removeFromIndex")]
           m1 == removeFromIndex(m, t.path)
       IN IF m1 = getSearchIndex(m) THEN Finish(m1, broadcastEvent(t1), "end")
          ELSE saveIndex(m1, t1, "handler")
  ELSE LET h == indexFileHead(m, t.path)
           t1 == [t EXCEPT !.trace = Append(@, "indexFile")]
       IN IF h.suspended
          THEN Stay(h.m, [t1 EXCEPT !.pc = "if_io", !.idx = h.idx, !.had = h.had])
          ELSE saveIndex(h.m, t1, "handler")

\* a handler that broadcasts the event before it updates the index
handleFileEvent_broadcastFirst(m, t) ==
  IF Dropped(t.path)
  THEN Finish(m, t, "end")
  ELSE IF t.etype = "deleted"
  THEN saveIndex(removeFromIndex(m, t.path),
                 [t EXCEPT !.trace = <<"broadcastEvent", "removeFromIndex">>], "handler")
  ELSE LET h == indexFileHead(m, t.path)
           t1 == [t EXCEPT !.trace = <<"broadcastEvent", "indexFile">>]
       IN IF h.suspended
          THEN Stay(h.m, [t1 EXCEPT !.pc = "if_io", !.idx = h.idx, !.had = h.had])
          ELSE saveIndex(h.m, t1, "handler")

\* handleFileEvent(type, fullPath) up to its first suspension, for the task
\* t that holds type and relativePath
handleFileEvent(m, t) ==
  IF Dropped(t.path)
  THEN Finish(m, t, "end")
  ELSE IF t.etype = "deleted"
  THEN saveIndex(removeFromIndex(m, t.path),
                 [t EXCEPT !.trace = Append(@, "removeFromIndex")], "handler")
  ELSE LET h == indexFileHead(m, t.path)
           t1 == [t EXCEPT !.trace = Append(@, "indexFile")]
       IN IF h.suspended
          THEN Stay(h.m, [t1 EXCEPT !.pc = "if_io", !.idx = h.idx, !.had = h.had])
          ELSE saveIndex(h.m, t1, "handler")

\* watcher.on('add' | 'change' | 'unlink'): the oldest pending event is handled
Deliver ==
  /\ queue # <<>>
  /\ LET e == Head(queue)
         t == [NewTask("event", e.type, e.path) EXCEPT
                 !.seq = evSeq + 1,
                 !.overlap = \E j \in DOMAIN tasks : tasks[j].kind = "reindex"]
         r == handleFileEvent(Mem, t)
     IN /\ Apply(Append(tasks, t), Len(tasks) + 1, r, Tail(queue), server)
        /\ lastEvent' = EventAfter(r)
        \* history: a burst goes on only with events that are already queued
        /\ burst' = IF tasks = <<>>
                     THEN IF Tail(queue) = <<>> THEN NoBurst
                          ELSE [base |-> Mem, evs |-> <<e>>]
                     ELSE IF burst.evs # <<>> THEN [burst EXCEPT !.evs = Append(@, e)]
                     ELSE burst
        /\ evSeq' = evSeq + 1
        /\ appliedSeq' = IF ~Dropped(e.path) /\ e.type = "deleted"
                         THEN [appliedSeq EXCEPT ![e.path] = evSeq + 1]
                         ELSE appliedSeq
        /\ lastIndexed' = IF Dropped(e.path) \/ r.task.pc = "if_io"
                          THEN lastIndexed ELSE NoIndexed
        /\ lastRemoved' = IF /\ ~Dropped(e.path)
                             /\ e.type = "deleted"
                             /\ SetHas(indexedPaths, e.path)
                          THEN [path |-> e.path, before |-> Hits(Mem), after |-> Hits(r.m)]
                          ELSE lastRemoved
        /\ lastCall' = IF Dropped(e.path) \/ r.task.pc = "if_io" THEN lastCall
                       ELSE IF e.type = "deleted"
                       THEN RemovedCall(e.path, getSearchIndex(Mem), r.m)
                       ELSE IndexedCall(e.path, "missing", r.m = getSearchIndex(Mem))
  /\ rt' = IdleRt
  /\ lastQuery' = NoQuery
  /\ UNCHANGED <<disk, unreadable, snapshotFile, fuel, lastBuild, killedIn, missed,
                 writeFailed>>

\* POST /api/search/reindex
ReindexRequest ==
  /\ server = "up"
  /\ fuel > 0
  /\ fuel' = fuel - 1
  /\ LET t == [NewTask("reindex", "none", <<>>) EXCEPT !.atCall = Eligible(disk, unreadable),
                                                      !.snapAt = snapshotFile.kind,
                                                      !.pre = Hits(Mem)]
     IN Apply(Append(tasks, t), Len(tasks) + 1, buildIndexHead(Mem, t), queue, server)
  /\ rt' = IdleRt
  /\ lastIndexed' = NoIndexed
  /\ lastQuery' = NoQuery
  /\ lastEvent' = NoEvent
  /\ burst' = NoBurst
  /\ UNCHANGED <<disk, unreadable, snapshotFile, lastBuild, killedIn, evSeq, appliedSeq,
                 missed,
                 lastRemoved, lastCall, writeFailed>>

\* readFile(fullPath) of indexFile is served by the file system
ReadFileIO(i) ==
  /\ tasks[i].pc = "if_io"
  /\ LET p == tasks[i].path
         ok == disk[p] # Absent /\ p \notin unreadable
     IN tasks' = [tasks EXCEPT ![i].pc = "if_resume", ![i].ok = ok,
                               ![i].val = IF ok THEN disk[p] ELSE <<>>]
  /\ UNCHANGED <<disk, unreadable, snapshotFile, heap, searchIndex, indexedPaths,
                 queue, server, fuel, hist>>

\* indexFile resumes after readFile; its caller goes on
IndexFileResume(i) ==
  /\ tasks[i].pc = "if_resume"
  /\ LET t == tasks[i]
         m == indexFileTail(Mem, t.path, t.idx, t.ok, t.val)
         added == m # Mem
         t2 == [t EXCEPT !.val = <<>>, !.ok = TRUE, !.idx = 0, !.path = <<>>,
                          !.had = FALSE]
         r == IF t.kind = "event" THEN saveIndex(m, [t2 EXCEPT !.path = t.path], "handler")
              ELSE indexDirectory(m, t2)
     IN /\ Apply(tasks, i, r, queue, server)
        /\ lastBuild' = BuiltAfter(r)
        /\ rt' = RtAfter(r)
        /\ appliedSeq' = IF t.kind = "event" /\ added
                         THEN [appliedSeq EXCEPT ![t.path] = t.seq]
                         ELSE appliedSeq
        /\ lastIndexed' = IF added
                          THEN [n |-> 1 - lastIndexed.n, path |-> t.path, text |-> t.val,
                                paths |-> Range(m.indexedPaths), res |-> Results(m)]
                          ELSE NoIndexed
        /\ lastCall' = IndexedCall(t.path, IF t.ok THEN "read" ELSE "unreadable",
                                   ~t.had /\ m = Mem)
  /\ UNCHANGED <<disk, unreadable, snapshotFile, fuel, killedIn, evSeq, missed,
                 lastRemoved, lastQuery, lastEvent, burst, writeFailed>>

\* readFile(SEARCH_INDEX_FILE) settles and buildIndex resumes
BuildResume(i) ==
  /\ tasks[i].pc = "b_io"
  /\ LET r == buildIndexTail(Mem, [tasks[i] EXCEPT !.ok = (snapshotFile.kind # "unreadable"),
                                                    !.snap = snapshotFile])
     IN /\ Apply(tasks, i, r, queue, server)
        /\ lastBuild' = BuiltAfter(r)
        /\ rt' = RtAfter(r)
  /\ UNCHANGED <<disk, unreadable, snapshotFile, fuel, killedIn, evSeq, appliedSeq,
                 missed, lastIndexed,
                 lastRemoved, lastCall, lastQuery, lastEvent, burst, writeFailed>>

\* readdir(fullPath) settles and indexDirectory resumes: a failure rejects
\* buildIndex (main exits the process, the route answers with an error),
\* else the loop over the entries runs
DirResume(i) ==
  /\ tasks[i].pc = "dir_io"
  /\ LET t == tasks[i]
         n == Len(t.stack)
         dir == t.stack[n].dir
         t2 == [t EXCEPT !.stack[n].todo = Readdir(disk, dir)]
         r == IF dir \in unreadable
              THEN Finish(Mem, [t EXCEPT !.ret = "threw"],
                          IF t.kind = "main" THEN "exit" ELSE "end")
              ELSE indexDirectory(Mem, t2)
     IN /\ Apply(tasks, i, r, queue, server)
        /\ lastBuild' = BuiltAfter(r)
        /\ rt' = RtAfter(r)
  /\ UNCHANGED <<disk, unreadable, snapshotFile, fuel, killedIn, evSeq, appliedSeq,
                 missed, lastIndexed,
                 lastRemoved, lastCall, lastQuery, lastEvent, burst, writeFailed>>

\* writeFile(SEARCH_INDEX_FILE): the file is opened and truncated, or the
\* open fails and saveIndex logs and returns
WriteOpen(i) ==
  /\ tasks[i].pc = "wr_open"
  /\ \E ok \in BOOLEAN :
       IF ok
       THEN /\ snapshotFile.kind # "unreadable"
            /\ snapshotFile' = PartialSnap
            /\ tasks' = [tasks EXCEPT ![i].pc = "wr_write"]
            /\ UNCHANGED <<heap, searchIndex, indexedPaths, queue, server, lastBuild, rt,
                           lastEvent, writeFailed>>
       ELSE LET r == afterSave(Mem, tasks[i])
            IN /\ snapshotFile' = snapshotFile
               /\ Apply(tasks, i, r, queue, server)
               /\ lastBuild' = BuiltAfter(r)
               /\ rt' = RtAfter(r)
               /\ lastEvent' = EventAfter(r)
               /\ writeFailed' = TRUE
  /\ UNCHANGED <<disk, unreadable, fuel, killedIn, evSeq, appliedSeq, missed,
                 lastIndexed,
                 lastRemoved, lastCall, lastQuery, burst>>

\* writeFile(SEARCH_INDEX_FILE): the data is written ("written"), the write
\* fails ("failed"), or it lands on top of what another writeFile in flight
\* wrote since this one truncated the file ("mixed"); then saveIndex returns
WriteFinish(i) ==
  /\ tasks[i].pc = "wr_write"
  /\ \E how \in {"written", "failed", "mixed"} :
       /\ how = "mixed" => snapshotFile.kind = "complete"
       /\ snapshotFile' = CASE how = "written" -> tasks[i].snap
                            [] how = "failed" -> snapshotFile
                            [] OTHER -> PartialSnap
       /\ writeFailed' = (writeFailed \/ how = "failed")
  /\ LET r == afterSave(Mem, tasks[i])
     IN /\ Apply(tasks, i, r, queue, server)
        /\ lastBuild' = BuiltAfter(r)
        /\ rt' = RtAfter(r)
        /\ lastEvent' = EventAfter(r)
  /\ UNCHANGED <<disk, unreadable, fuel, killedIn, evSeq, appliedSeq, missed,
                 lastIndexed,
                 lastRemoved, lastCall, lastQuery, burst>>

\* GET /api/search?q=...: search() runs (it never suspends); index.search
\* drops the postings of removed documents that it meets
Search(query) ==
  /\ server = "up"
  /\ fuel > 0
  /\ fuel' = fuel - 1
  /\ LET g == getSearchIndex(Mem)
         ix == g.heap[g.searchIndex]
         after == IF IsBlank(query) THEN ix ELSE MS_afterSearch(ix, query)
     IN /\ heap' = [g.heap EXCEPT ![g.searchIndex] = after]
        /\ searchIndex' = g.searchIndex
        /\ \E rk \in (IF IsBlank(query) THEN {<<>>} ELSE Rankings(ix, query)) :
             lastQuery' = QueryOf("search", query, rk, {}, ix, after)
  /\ rt' = IdleRt
  /\ burst' = NoBurst
  /\ UNCHANGED <<disk, unreadable, snapshotFile, indexedPaths, tasks, queue, server,
                 lastBuild, killedIn, evSeq, appliedSeq, missed, lastIndexed,
                 lastRemoved, lastCall, lastEvent, writeFailed>>

\* GET /api/search/suggest?q=...: getSuggestions() runs (it never suspends)
Suggest(prefix) ==
  /\ server = "up"
  /\ fuel > 0
  /\ fuel' = fuel - 1
  /\ LET g == getSearchIndex(Mem)
         ix == g.heap[g.searchIndex]
         after == IF IsBlank(prefix) THEN ix ELSE MS_afterSuggest(ix, prefix)
     IN /\ heap' = [g.heap EXCEPT ![g.searchIndex] = after]
        /\ searchIndex' = g.searchIndex
        /\ lastQuery' = QueryOf("suggest", prefix, <<>>, getSuggestions(Mem, prefix),
                                ix, after)
  /\ rt' = IdleRt
  /\ burst' = NoBurst
  /\ UNCHANGED <<disk, unreadable, snapshotFile, indexedPaths, tasks, queue, server,
                 lastBuild, killedIn, evSeq, appliedSeq, missed, lastIndexed,
                 lastRemoved, lastCall, lastEvent, writeFailed>>

(***************************************************************************)
(* Specifications                                                          *)
(***************************************************************************)
BadChoices == {{}, {P_a}, {D_b}}

StartWith(n, snaps) ==
  /\ disk \in {[p \in AllFiles |-> IF p = P_bc THEN c ELSE Text1] : c \in {Text2, Absent}}
  /\ unreadable \in BadChoices
  /\ snapshotFile \in snaps
  /\ heap = <<>>
  /\ searchIndex = 0
  /\ indexedPaths = <<>>
  /\ tasks = <<>>
  /\ queue = <<>>
  /\ server = "down"
  /\ fuel = n
  /\ lastBuild = NoBuild
  /\ killedIn = FALSE
  /\ evSeq = 0
  /\ appliedSeq = [p \in AllFiles |-> 0]
  /\ missed = FALSE
  /\ rt = IdleRt
  /\ lastIndexed = NoIndexed
  /\ lastRemoved = NoRemoved
  /\ lastCall = NoCall
  /\ lastQuery = NoQuery
  /\ lastEvent = NoEvent
  /\ burst = NoBurst
  /\ writeFailed = FALSE

Start(n) == StartWith(n, {NoSnap})

Init == Start(MaxOps)

Step(i) ==
  \/ ReadFileIO(i)
  \/ IndexFileResume(i)
  \/ BuildResume(i)
  \/ DirResume(i)
  \/ WriteOpen(i)
  \/ WriteFinish(i)

Stimulus ==
  \/ Boot
  \/ \E p \in MutableFiles : \E c \in Contents \cup {Absent} : FsChange(p, c)
  \/ \E p \in AllFiles : FsTouch(p)
  \/ Deliver
  \/ ReindexRequest
  \/ \E query \in Queries \cup {Q_blank} : Search(query)
  \/ \E prefix \in Queries \cup {Q_blank} : Suggest(prefix)

\* the server under any interleaving of events, requests and I/O completions
Next ==
  \/ Stimulus
  \/ Crash
  \/ \E i \in DOMAIN tasks : Step(i)

Spec == Init /\ [][Next]_vars

\* the service used by one caller at a time: an event or a request arrives
\* only when the calls before it have returned
InitSeq == Start(MaxSeqOps)

NextSeq ==
  \/ tasks = <<>> /\ Stimulus
  \/ Crash
  \/ \E i \in DOMAIN tasks : Step(i)

SpecSeq == InitSeq /\ [][NextSeq]_vars

\* the same, for a process that finds a snapshot file of any kind when it
\* starts
InitLoad == StartWith(MaxLoadOps, SnapChoices)

SpecLoad == InitLoad /\ [][NextSeq]_vars

(***************************************************************************)
(* search as a function of the documents indexFile was given: notes with   *)
(* the same file name in three folders and a fourth note, each holding one *)
(* of two texts, are indexed in any order and searched for "map"           *)
(***************************************************************************)
P_map == <<"m", "a", "p", ".", "m", "d">>
P_xmap == <<"x", "/", "m", "a", "p", ".", "m", "d">>
P_ymap == <<"y", "/", "m", "a", "p", ".", "m", "d">>
RankPaths == {P_a, P_map, P_xmap, P_ymap}
RankContents == {T_road, T_map}

\* indexFile(p) runs to its end for a new note p with the text c
RankIndex(p, c) ==
  /\ fuel > 0
  /\ ~SetHas(indexedPaths, p)
  /\ fuel' = fuel - 1
  /\ LET g == getSearchIndex(Mem)
         m == indexFileTail(g, p, g.searchIndex, TRUE, c)
     IN /\ heap' = m.heap
        /\ searchIndex' = m.searchIndex
        /\ indexedPaths' = m.indexedPaths
  /\ lastQuery' = NoQuery
  /\ UNCHANGED <<disk, unreadable, snapshotFile, tasks, queue, server, lastBuild,
                 killedIn, evSeq, appliedSeq, missed, rt, lastIndexed, lastRemoved,
                 lastCall, lastEvent, burst, writeFailed>>

\* a running server over an empty notes directory
InitRank ==
  /\ disk = [p \in AllFiles |-> Absent]
  /\ unreadable = {}
  /\ snapshotFile = [kind |-> "complete", data |-> MS_toJSON(EmptyIndex), paths |-> <<>>]
  /\ heap = <<EmptyIndex>>
  /\ searchIndex = 1
  /\ indexedPaths = <<>>
  /\ tasks = <<>>
  /\ queue = <<>>
  /\ server = "up"
  /\ fuel = MaxRankOps
  /\ lastBuild = NoBuild
  /\ killedIn = FALSE
  /\ evSeq = 0
  /\ appliedSeq = [p \in AllFiles |-> 0]
  /\ missed = FALSE
  /\ rt = IdleRt
  /\ lastIndexed = NoIndexed
  /\ lastRemoved = NoRemoved
  /\ lastCall = NoCall
  /\ lastQuery = NoQuery
  /\ lastEvent = NoEvent
  /\ burst = NoBurst
  /\ writeFailed = FALSE

NextRank ==
  \/ \E p \in RankPaths : \E c \in RankContents : RankIndex(p, c)
  \/ Search(Q_map)

SpecRank == InitRank /\ [][NextRank]_vars

(***************************************************************************)
(* What queries and claims observe                                         *)
(***************************************************************************)
\* the MiniSearch object queries read (a null searchIndex is created empty)
LiveIndex == IF searchIndex = 0 THEN EmptyIndex ELSE heap[searchIndex]

LiveIds == DocIdsOf(LiveIndex)

TrackedPaths == Range(indexedPaths)

\* the terms of the content of document id as the index holds them, each
\* with its frequency
ContentOf(ix, id) ==
  {<<k[1], ix.index[k]>> :
     k \in {k2 \in DOMAIN ix.index : k2[2] = "content" /\ k2[3] = ShortIdOf(ix, id)}}

\* the live index holds document p with the text the file has now
HoldsCurrentContent(p) ==
  ContentOf(LiveIndex, p)
    = ContentOf(MS_add(EmptyIndex, [id |-> p, content |-> disk[p]]).ix, p)

\* the terms of the documents that are in the index
LiveTerms(ix) == {k[1] : k \in {k2 \in DOMAIN ix.index : k2[3] \in DOMAIN ix.documentIds}}

\* no handler, request or event is pending in a running server
Quiescent == server = "up" /\ tasks = <<>> /\ queue = <<>>

\* C1: the document ids of the live index equal indexedPaths at every
\* suspension point and after every call
C1_IndexEqualsTracked == LiveIds = TrackedPaths

\* C2: once buildIndex() has returned, at startup or for /reindex,
\* indexedPaths is the set of non-hidden markdown documents that existed and
\* were readable when it was called, with or without a snapshot file
C2_BuildTracksEligible ==
  lastBuild.how \in {"loaded", "rebuilt"} => lastBuild.got = lastBuild.expected

\* C3: when buildIndex() and saveIndex() have run, the process restarts and
\* buildIndex() returns again, indexedPaths and the results of every query
\* are what they were before the restart
C3_RoundTrip ==
  [][(/\ rt.phase = "restarted"
      /\ lastBuild.who = "none"
      /\ lastBuild'.who = "main"
      /\ lastBuild'.how \in {"loaded", "rebuilt"})
     => /\ TrackedPaths' = rt.paths
        /\ Results(Mem)' = rt.res]_vars

\* no query finds a document that is not in the index, and every suggested
\* term occurs in a document that is in the index
OnlyLiveAnswers ==
  \A q \in Queries :
    /\ HitPaths(Mem, q) \subseteq LiveIds
    /\ UNION getSuggestions(Mem, q) \subseteq LiveTerms(LiveIndex)

C5_ReindexIdempotent ==
  [][(/\ lastIndexed.path # <<>>
      /\ lastIndexed'.n # lastIndexed.n
      /\ lastIndexed'.path = lastIndexed.path
      /\ lastIndexed'.text = lastIndexed.text)
     => /\ lastIndexed'.paths = lastIndexed.paths
        /\ lastIndexed'.res = lastIndexed.res]_vars

\* C6: after a kill between an indexFile call and the end of the following
\* saveIndex, the buildIndex() of the restarted process does not throw, and
\* what it leaves is a loaded snapshot or the full rebuild from disk
C6_RestartBuilds ==
  (killedIn /\ lastBuild.who = "main")
    => /\ lastBuild.how \in {"loaded", "rebuilt"}
       /\ lastBuild.how = "rebuilt" => lastBuild.got = lastBuild.expected

\* C7: the index mutations of the events of one path take effect in the
\* order in which the events were received
C7_ReceiptOrder ==
  [][\A p \in AllFiles : appliedSeq'[p] >= appliedSeq[p]]_vars

\* C8: when every change was reported by the watcher and every handler has
\* completed, indexedPaths is the set of eligible markdown files on disk and
\* every indexed document holds its file's current content
C8_EventuallyConsistent ==
  (Quiescent /\ ~missed)
    => /\ TrackedPaths = Eligible(disk, unreadable)
       /\ LiveIds = TrackedPaths
       /\ \A p \in LiveIds : HoldsCurrentContent(p)

\* C9: buildIndex() never rejects, whatever the file system does
C9_BuildNeverThrows == lastBuild.how # "threw"

\* C10: the snapshot file never holds a partially written snapshot
C10_SnapshotAtomic == snapshotFile.kind # "partial"

\* C11: a buildIndex() that returns after finding no snapshot file, or one it
\* cannot read, parse or deserialize (a data or paths member missing or of the
\* wrong type included), has called saveIndex() and leaves the index and
\* indexedPaths that a build without any snapshot file leaves
C11_SnapshotFallback ==
  (lastBuild.how \in {"loaded", "rebuilt"} /\ lastBuild.snap # "complete")
    => (lastBuild.how = "rebuilt" /\ lastBuild.asFull)

\* C12: indexFile(p) changes neither the index nor indexedPaths when p does not
\* exist, is not a markdown file or cannot be read, whether or not p had an
\* entry before the call.  For a missing or non-markdown p the call is taken
\* in the current state; for an unreadable p it is the last call that
\* returned.
C12_IndexFileNoop ==
  /\ \A p \in AllFiles :
       (~existsSync(p) \/ ~isMarkdownFile(p))
         => /\ indexFileHead(Mem, p).m = getSearchIndex(Mem)
            /\ ~indexFileHead(Mem, p).suspended
  /\ (lastCall.fn = "indexFile" /\ lastCall.case \in {"missing", "unreadable"})
       => lastCall.same

\* C13: removeFromIndex(p) of a tracked p leaves p in neither the index nor
\* indexedPaths and every other document and tracked path as it was; of an
\* untracked p it changes nothing; whether the file of p is still on disk
\* makes no difference
C13_RemoveFrame ==
  lastCall.fn = "removeFromIndex"
    => IF lastCall.case = "tracked"
       THEN lastCall.gone /\ lastCall.others
       ELSE lastCall.same

\* C14 as stated: every result of search(q, s) has a path that starts with
\* the scope s as it was passed
C14_ScopePrefix ==
  lastQuery.fn = "search"
    => \A s \in Scopes : \A n \in Limits :
         \A i \in DOMAIN lastQuery.out[<<s, n>>] :
           StartsWith(lastQuery.out[<<s, n>>][i].path, s)

\* C14: every result of search(q, s) has a path that starts with s stripped
\* of its leading and trailing slashes
C14_ScopePrefixTrimmed ==
  lastQuery.fn = "search"
    => \A s \in Scopes : \A n \in Limits :
         \A i \in DOMAIN lastQuery.out[<<s, n>>] :
           StartsWith(lastQuery.out[<<s, n>>][i].path, TrimSlashes(s))

\* a search whose scope has slashes around it kept one document and dropped
\* another that index.search had found
C14_Witness ==
  /\ lastQuery.fn = "search"
  /\ Len(lastQuery.rank) = 2
  /\ Len(lastQuery.out[<< <<"/", "b", "/">>, 0>>]) = 1


\* C15 as stated: with the same limit, the paths of search(q, s) are among
\* the paths of search(q, undefined)
C15_ScopeSubset ==
  lastQuery.fn = "search"
    => \A s \in Scopes : \A n \in Limits :
         {r.path : r \in Range(lastQuery.out[<<s, n>>])}
           \subseteq {r.path : r \in Range(lastQuery.out[<< <<>>, n>>])}

\* C15: with the same limit, the paths of search(q, s) are among the paths
\* of search(q, undefined) whenever the limit does not cut search(q, undefined)
\* short, and in any case among the documents index.search(q) found
C15_ScopeSubsetUncut ==
  lastQuery.fn = "search"
    => \A s \in Scopes : \A n \in Limits :
         LET scoped == {r.path : r \in Range(lastQuery.out[<<s, n>>])}
             unscoped == {r.path : r \in Range(lastQuery.out[<< <<>>, n>>])}
         IN /\ scoped \subseteq {r.id : r \in Range(lastQuery.rank)}
            /\ Len(lastQuery.rank) <= (IF n = 0 THEN SEARCH_DEFAULT_LIMIT ELSE n)
                 => scoped \subseteq unscoped

\* a search for which the scoped call returns one of the two documents the
\* unscoped call returns without a limit, and not the one it returns with
\* limit 1
C15_Witness ==
  /\ lastQuery.fn = "search"
  /\ Len(lastQuery.out[<< <<>>, 0>>]) = 2
  /\ Len(lastQuery.out[<< <<"b">>, 0>>]) = 1
  /\ Len(lastQuery.out[<< <<"b">>, 1>>]) = 1
  /\ lastQuery.out[<< <<"b">>, 1>>][1].path # lastQuery.out[<< <<>>, 1>>][1].path


\* C16: search(q, s, n) returns the first n entries of the ranking of q
\* filtered by the scope, all of them if there are fewer than n: never more
\* than n, and exactly n when n documents in scope match, whatever ranks
\* above them outside the scope; without a limit n is 50
C16_LimitAfterScope ==
  lastQuery.fn = "search"
    => \A s \in Scopes : \A n \in Limits :
         LET inScope(r) == StartsWith(r.id, TrimSlashes(s))
             ranking == SelectSeq(lastQuery.rank, inScope)
             k == IF n = 0 THEN 50 ELSE n
             out == lastQuery.out[<<s, n>>]
         IN /\ Len(out) = Min(k, Len(ranking))
            /\ \A i \in DOMAIN out : out[i].path = ranking[i].id

\* a search with limit 1 returned the document in scope that index.search
\* ranked second, behind one outside the scope
C16_Witness ==
  /\ lastQuery.fn = "search"
  /\ Len(lastQuery.rank) = 2
  /\ ~StartsWith(lastQuery.rank[1].id, <<"b">>)
  /\ Len(lastQuery.out[<< <<"b">>, 1>>]) = 1
  /\ lastQuery.out[<< <<"b">>, 1>>][1].path = lastQuery.rank[2].id

\* C17: search(q) for a blank q (empty or only whitespace) and
\* getSuggestions(p) for a blank p return the empty list, for every scope and
\* limit, and leave the index object as it was: index.search and
\* index.autoSuggest are not called
C17_BlankQuery ==
  /\ (lastQuery.fn # "none" /\ IsBlank(lastQuery.q))
       => /\ \A sn \in Scopes \X Limits : lastQuery.out[sn] = <<>>
          /\ lastQuery.sugg = {}
          /\ lastQuery.same
  /\ \A s \in Scopes : \A n \in Limits :
       \A rk \in Rankings(LiveIndex, Q_ro) : searchResults(rk, <<>>, s, n) = <<>>
  /\ getSuggestions(Mem, <<>>) = {}

\* a search for a blank string ran against an index that holds documents
C17_Witness ==
  /\ lastQuery.fn = "search"
  /\ lastQuery.q = Q_blank
  /\ LiveIds # {}

\* C18: no query is answered from a partially built index: while the server
\* listens no buildIndex() of main is in flight, and no search or
\* getSuggestions runs against the index that a buildIndex() in flight has
\* cleared and not yet filled again (seen by a search that had answers
\* before the build and has none now)
C18_NoPartialIndex ==
  /\ server = "up" => \A i \in DOMAIN tasks : tasks[i].kind # "main"
  /\ ~lastQuery.cleared

C20_QueriesReadOnly ==
  [][(lastQuery'.fn # "none" /\ fuel' < fuel)
       => /\ lastQuery'.kept
          /\ LiveIds' = LiveIds
          /\ indexedPaths' = indexedPaths
          /\ snapshotFile' = snapshotFile]_vars

\* a search changed the index object (it dropped postings of a removed
\* document) and kept every document
C20_Witness ==
  /\ lastQuery.fn = "search"
  /\ ~lastQuery.same
  /\ lastQuery.kept
  /\ LiveIds # {}

\* the two indexes hold the same documents with the same terms in the same
\* fields (short ids and left-over postings of removed documents aside)
SameDocs(a, b) ==
  /\ DocIdsOf(a) = DocIdsOf(b)
  /\ \A id \in DocIdsOf(a) : DocOf(a, id) = DocOf(b, id)

\* the module state after handleFileEvent(e.type, e.path) ran from m to its
\* end with no other call in between
SeqHandle(m, e) ==
  IF Dropped(e.path) THEN m
  ELSE IF e.type = "deleted" THEN removeFromIndex(m, e.path)
  ELSE LET h == indexFileHead(m, e.path)
       IN IF h.suspended
          THEN indexFileTail(h.m, e.path, h.idx,
                             disk[e.path] # Absent /\ e.path \notin unreadable, disk[e.path])
          ELSE h.m

TitleOnly(r) ==
  /\ {c.field : c \in r.parts} = {"title", "path"}
  /\ \A c \in r.parts : c.kind = "exact"

\* the result matched the query term itself in the content only
BodyOnly(r) ==
  /\ {c.field : c \in r.parts} = {"content"}
  /\ \A c \in r.parts : c.kind = "exact"

\* C22: of two documents that index.search returns, one holding the query
\* term only in its title and one only in its body, the title match comes
\* first
C22_TitleBeforeBody ==
  lastQuery.fn = "search" =>
    \A i, j \in DOMAIN lastQuery.rank :
      (TitleOnly(lastQuery.rank[i]) /\ BodyOnly(lastQuery.rank[j])) => i < j

\* the index call handleFileEvent makes for an event of the given type
IndexCallOf(type) == IF type = "deleted" THEN "removeFromIndex" ELSE "indexFile"

C24_DroppedEvents ==
  [][(/\ queue # <<>>
      /\ evSeq' = evSeq + 1
      /\ (isHiddenPath(Head(queue).path) \/ ~isMarkdownFile(Head(queue).path)))
     => /\ lastEvent'.path = Head(queue).path
        /\ lastEvent'.trace = <<>>
        /\ tasks' = tasks
        /\ heap' = heap
        /\ searchIndex' = searchIndex
        /\ indexedPaths' = indexedPaths
        /\ snapshotFile' = snapshotFile]_vars

\* the event of the hidden note .h/x.md was handled without a call, in a
\* server whose index holds notes and whose snapshot is written
C24_Witness ==
  /\ lastEvent.type = "modified"
  /\ lastEvent.path = P_hx
  /\ lastEvent.trace = <<>>
  /\ TrackedPaths # {}
  /\ snapshotFile.kind = "complete"

\* C30: the handler of an event that is not dropped broadcasts the event
\* once, as its last call and after its index call and its saveIndex have
\* settled, also when the index call failed; while the handler is in flight
\* it has not broadcast; the handler of a dropped event does not broadcast
C30_BroadcastLast ==
  /\ lastEvent.type # "none" =>
       IF isHiddenPath(lastEvent.path) \/ ~isMarkdownFile(lastEvent.path)
       THEN \A k \in DOMAIN lastEvent.trace : lastEvent.trace[k] # "broadcastEvent"
       ELSE /\ Len(lastEvent.trace) = 3
            /\ lastEvent.trace[1] \in {"indexFile", "removeFromIndex"}
            /\ lastEvent.trace[2] = "saveIndex"
            /\ lastEvent.trace[3] = "broadcastEvent"
  /\ \A i \in DOMAIN tasks :
       \A k \in DOMAIN tasks[i].trace : tasks[i].trace[k] # "broadcastEvent"

\* the handler of a change of a.md, whose readFile failed, has returned: the
\* indexFile call left the note out of the index, a writeFile of saveIndex
\* has failed in this process, and the event was broadcast after both calls
C30_Witness ==
  /\ lastEvent.type = "modified"
  /\ lastEvent.path = P_a
  /\ lastCall.fn = "indexFile"
  /\ lastCall.path = P_a
  /\ lastCall.case = "unreadable"
  /\ P_a \notin LiveIds
  /\ writeFailed
  /\ lastEvent.trace = <<"indexFile", "saveIndex", "broadcastEvent">>

SnapshotCurrent ==
  /\ snapshotFile.kind = "complete"
  /\ SameDocs(MS_loadJSON(snapshotFile.data).ix, LiveIndex)
  /\ Range(snapshotFile.paths) = TrackedPaths

\* C26: when every handler and every saveIndex() has completed and no
\* writeFile has failed, the snapshot file holds the current index and
\* indexedPaths, however the saves overlapped
C26_SnapshotCurrentAtRest ==
  (Quiescent /\ ~writeFailed) => SnapshotCurrent

\* C27: an event handled while POST /api/search/reindex was in progress is
\* not lost: when nothing is in flight any more, a created or modified note
\* that can be indexed is in the live index and in indexedPaths, and a deleted
\* note is in neither
C27_EventDuringReindexKept ==
  (tasks = <<>> /\ server = "up" /\ lastEvent.overlap /\ ~Dropped(lastEvent.path))
    => IF lastEvent.type = "deleted"
       THEN lastEvent.path \notin LiveIds /\ lastEvent.path \notin TrackedPaths
       ELSE lastEvent.path \in Eligible(disk, unreadable)
              => lastEvent.path \in LiveIds /\ lastEvent.path \in TrackedPaths

\* the document ids in the data of a snapshot equal its paths array
Paired(snap) ==
  DocIdsOf(MS_loadJSON(snap.data).ix) = Range(snap.paths)

\* C28: whenever the snapshot file receives a whole snapshot, it is the
\* {data, paths} that a saveIndex() in flight serialized when it was called,
\* and its document ids equal its paths if the index and indexedPaths agreed
\* at that call
C28_SnapshotPaired ==
  [][(snapshotFile' # snapshotFile /\ snapshotFile'.kind = "complete")
       => \E i \in DOMAIN tasks :
            /\ tasks[i].pc = "wr_write"
            /\ snapshotFile' = tasks[i].snap
            /\ tasks[i].agreed => Paired(tasks[i].snap)]_vars

\* a snapshot was written whole whose data and paths pair up and hold a.md,
\* while the index and indexedPaths in memory had moved on during the write
C28_Witness ==
  /\ snapshotFile.kind = "complete" /\ Paired(snapshotFile)
  /\ Range(snapshotFile.paths) = {P_a}
  /\ TrackedPaths = {} /\ LiveIds = {}
  /\ lastEvent.type = "modified" /\ lastEvent.trace = <<"indexFile", "saveIndex", "broadcastEvent">>
  /\ ~writeFailed

\* C29: in a server that started without a snapshot, whatever events were
\* handled since, every path of indexedPaths ends in .md in any letter case
\* and none of its components starts with '.'
C29_OnlyVisibleMarkdownTracked ==
  \A p \in TrackedPaths :
    /\ toLowerCase(extname(p)) = <<".", "m", "d">>
    /\ \A part \in Range(Split(p, {"/"})) : ~StartsWith(part, <<".">>)

\* after a full rebuild that met the hidden note .h/x.md and the text file
\* n.txt in the directory, the event of n.txt was handled, and indexedPaths
\* holds the two visible notes
C29_Witness ==
  /\ lastBuild.how = "rebuilt"
  /\ disk[P_hx] # Absent /\ disk[P_n] # Absent
  /\ lastEvent.type = "modified" /\ lastEvent.path = P_n
  /\ TrackedPaths = {P_a, P_bc}
  /\ tasks = <<>>

====
